---- MODULE Spec2Model ----
(***************************************************************************)
(* Model of utils.h (pucitos/c-utils): the leveled logger (log_init,       *)
(* log_close, log_message over the globals log_file and                    *)
(* current_log_level), str_trim and random_int.                            *)
(***************************************************************************)
EXTENDS Integers, Sequences, FiniteSets, TLC

(* ------------------------------ bounds --------------------------------- *)
\* number of FILE objects fopen can hand out before it fails (EMFILE)
MaxOpenFiles == 2
\* longest string given to str_trim
MaxLen == 3
\* width of int in the model of random_int (two's complement)
IntBits == 4

(* ------------------------------ state ---------------------------------- *)
VARIABLES
  log_file,           \* static FILE *log_file
  current_log_level,  \* static LogLevel current_log_level
  open,               \* FILE objects returned by fopen and not yet fclosed
  running,            \* FALSE once exit() has been called
  call,               \* the last logger call and what it did
  prev_call,          \* the logger call before it
  prev2_call,         \* and the one before that
  str,                \* the buffer str_trim works on, terminator included
  trim_in,            \* the string the buffer held before the first str_trim
  trim_n,             \* number of str_trim calls made on the buffer
  r_min, r_max,       \* the arguments of random_int
  r_ret,              \* what the call of random_int produced
  r_pc                \* "idle", "call" (before random_int), "done" (after)

vars == <<log_file, current_log_level, open, running, call, prev_call,
          prev2_call,
          str, trim_in, trim_n, r_min, r_max, r_ret, r_pc>>
logVars == <<log_file, current_log_level, open, running, call, prev_call,
             prev2_call>>
trimVars == <<str, trim_in, trim_n>>
randVars == <<r_min, r_max, r_ret, r_pc>>

(* --------------------------- logger: types ----------------------------- *)
LOG_DEBUG == 0
LOG_INFO == 1
LOG_WARNING == 2
LOG_ERROR == 3
LOG_FATAL == 4
LogLevel == LOG_DEBUG..LOG_FATAL

\* FILE pointers: the null pointer, stdout, and the objects fopen returns
NULL == 0
STDOUT == 1
FileHandles == 2..(MaxOpenFiles + 1)

\* filename arguments: no filename, a path that opens, a path that does not
NoFilename == "NULL"
Filenames == {NoFilename, "app.log", "/nodir/app.log"}
Openable == {"app.log"}

\* fopen(filename, "a"): a FILE object that is not open now (the address of a
\* closed one may come back), or NULL when the path does not open or no FILE
\* object is left
fopen(filename) ==
  IF filename \in Openable /\ FileHandles \ open # {}
    THEN FileHandles \ open
    ELSE {NULL}

NoCall ==
  [op |-> "none", filename |-> NoFilename, level |-> LOG_DEBUG, ret |-> "void",
   wrote |-> NULL, lines |-> 0, flushed |-> FALSE, closed |-> NULL,
   diag |-> FALSE]

(* ------------------------- logger: operations -------------------------- *)
\* log_init with an open failure that keeps the old destination
log_init_keep(filename, level, fp, lf) ==
  [level |-> level,
   log_file |-> IF filename = NoFilename THEN STDOUT
                ELSE IF fp = NULL THEN lf ELSE fp,
   ret |-> IF filename = NoFilename THEN TRUE ELSE fp # NULL,
   diag |-> filename # NoFilename /\ fp = NULL]

\* what log_init assigns and returns; fp is the result of its fopen, lf the
\* old log_file
log_init_eff(filename, level, fp, lf) ==
  [level |-> level,
   log_file |-> IF filename = NoFilename THEN STDOUT ELSE fp,
   ret |-> IF filename = NoFilename THEN TRUE ELSE fp # NULL,
   diag |-> filename # NoFilename /\ fp = NULL]

log_init ==
  /\ running
  /\ \E filename \in Filenames, level \in LogLevel :
       \E fp \in (IF filename = NoFilename THEN {NULL} ELSE fopen(filename)) :
         LET e == log_init_eff(filename, level, fp, log_file) IN
           /\ current_log_level' = e.level
           /\ log_file' = e.log_file
           /\ open' = IF fp # NULL THEN open \cup {fp} ELSE open
           /\ call' = [NoCall EXCEPT !.op = "log_init",
                                     !.filename = filename,
                                     !.level = level,
                                     !.ret = IF e.ret THEN "true" ELSE "false",
                                     !.diag = e.diag]
  /\ prev_call' = call
  /\ prev2_call' = prev_call
  /\ UNCHANGED <<running, trimVars, randVars>>

\* log_close that closes the file and forgets to reset log_file
log_close_dangling(lf) ==
  [closes |-> lf # NULL /\ lf # STDOUT, log_file |-> lf]

\* log_close that treats stdout like a file
log_close_stdout(lf) ==
  [closes |-> lf # NULL, log_file |-> NULL]

\* whether log_close calls fclose(log_file), and the log_file it leaves
log_close_eff(lf) ==
  [closes |-> lf # NULL /\ lf # STDOUT,
   log_file |-> IF lf # NULL /\ lf # STDOUT THEN NULL ELSE lf]

log_close ==
  /\ running
  /\ LET e == log_close_eff(log_file) IN
       /\ open' = IF e.closes THEN open \ {log_file} ELSE open
       /\ log_file' = e.log_file
       /\ call' = [NoCall EXCEPT !.op = "log_close",
                                 !.flushed = e.closes,
                                 !.closed = IF e.closes THEN log_file ELSE NULL]
  /\ prev_call' = call
  /\ prev2_call' = prev_call
  /\ UNCHANGED <<current_log_level, running, trimVars, randVars>>

\* log_message with the level test the wrong way round
log_message_le(lf, cur, level) ==
  LET f == IF lf = NULL THEN STDOUT ELSE lf IN
    [log_file |-> f,
     writes |-> ~(level <= cur),
     exits |-> ~(level <= cur) /\ level = LOG_FATAL]

\* log_message without the level test
log_message_nofilter(lf, cur, level) ==
  LET f == IF lf = NULL THEN STDOUT ELSE lf IN
    [log_file |-> f, writes |-> TRUE, exits |-> level = LOG_FATAL]

\* log_message that returns after a FATAL line
log_message_noexit(lf, cur, level) ==
  LET f == IF lf = NULL THEN STDOUT ELSE lf IN
    [log_file |-> f, writes |-> ~(level < cur), exits |-> FALSE]

\* log_message that writes to stdout when log_file is NULL without storing it
log_message_nostore(lf, cur, level) ==
  [log_file |-> lf,
   writes |-> ~(level < cur),
   exits |-> ~(level < cur) /\ level = LOG_FATAL]

\* the log_file log_message leaves, whether it gets past the level test and
\* writes its line, and whether it ends in exit(EXIT_FAILURE)
log_message_eff(lf, cur, level) ==
  LET f == IF lf = NULL THEN STDOUT ELSE lf IN
    [log_file |-> f,
     writes |-> ~(level < cur),
     exits |-> ~(level < cur) /\ level = LOG_FATAL]

log_message ==
  /\ running
  /\ \E level \in LogLevel :
       LET e == log_message_eff(log_file, current_log_level, level) IN
         /\ log_file' = e.log_file
         /\ call' = [NoCall EXCEPT
                       !.op = "log_message",
                       !.level = level,
                       !.wrote = IF e.writes
                                   THEN (IF e.log_file = NULL THEN STDOUT
                                         ELSE e.log_file)
                                   ELSE NULL,
                       !.lines = IF e.writes THEN 1 ELSE 0,
                       !.flushed = e.writes,
                       !.ret = IF e.exits THEN "noreturn" ELSE "void"]
         /\ running' = ~e.exits
         \* exit() closes every stream that is still open
         /\ open' = IF e.exits THEN {} ELSE open
  /\ prev_call' = call
  /\ prev2_call' = prev_call
  /\ UNCHANGED <<current_log_level, trimVars, randVars>>

(* ------------------------------ str_trim ------------------------------- *)
NUL == "NUL"
Whitespace == {"SP", "TAB", "LF", "CR"}
Chars == Whitespace \cup {"a", "b"}

\* the test of both loops: ' ', '\t', '\n' or '\r'
IsSpace(c) == c \in Whitespace

\* strlen of the C string that starts at 0-based offset from in buffer buf
RECURSIVE strlen(_, _)
strlen(buf, from) ==
  IF buf[from + 1] = NUL THEN 0 ELSE 1 + strlen(buf, from + 1)

\* the C string held in buf: the characters before the first terminator
CStr(buf) == SubSeq(buf, 1, strlen(buf, 0))

\* first loop: advance start over leading whitespace
RECURSIVE SkipLeading(_, _)
SkipLeading(buf, start) ==
  IF buf[start + 1] # NUL /\ IsSpace(buf[start + 1])
    THEN SkipLeading(buf, start + 1)
    ELSE start

\* memmove(str, start, n): n bytes from offset start to offset 0
memmove(buf, start, n) ==
  [i \in 1..Len(buf) |-> IF i <= n THEN buf[start + i] ELSE buf[i]]

\* second loop: end walks down from the last character, never reaching str
RECURSIVE TrimTrailing(_, _)
TrimTrailing(buf, end) ==
  IF end > 0 /\ IsSpace(buf[end + 1])
    THEN TrimTrailing([buf EXCEPT ![end + 1] = NUL], end - 1)
    ELSE buf

\* str_trim without the first loop and its memmove
str_trim_notleading(buf) ==
  TrimTrailing(buf, strlen(buf, 0) - 1)

\* the buffer after str_trim(str), str being non-null
str_trim(buf) ==
  LET start == SkipLeading(buf, 0)
      moved == IF start # 0
                 THEN memmove(buf, start, strlen(buf, start) + 1)
                 ELSE buf
  IN TrimTrailing(moved, strlen(moved, 0) - 1)

\* the caller trims its buffer, and may trim the result again
StrTrim ==
  /\ trim_n \in {0, 1}
  /\ str' = str_trim(str)
  /\ trim_n' = trim_n + 1
  /\ UNCHANGED <<trim_in, logVars, randVars>>

(* ----------------------------- random_int ------------------------------ *)
INT_MAX == 2^(IntBits - 1) - 1
INT_MIN == -(2^(IntBits - 1))
RAND_MAX == INT_MAX
Int_ == INT_MIN..INT_MAX

\* two's complement wrap-around of an int result
Wrap(x) == ((x - INT_MIN) % 2^IntBits) + INT_MIN

\* a % b of C for a >= 0 and b # 0: the sign of the result is that of a
CMod(a, b) == a % (IF b < 0 THEN -b ELSE b)

Returned(v) == [trap |-> FALSE, val |-> v]
Trapped == [trap |-> TRUE, val |-> 0]

\* random_int(min, max) when rand() returns rnd.  max - min + 1 is an int
\* expression; when it overflows, the behaviour is undefined, and the outcomes
\* are those of the builds there are: a trap (-ftrapv), or wrap-around, where
\* a width of 0 makes the % trap (x86) or yield its left operand (ARM sdiv).
random_int(min, max, rnd) ==
  LET lo == IF min > max THEN max ELSE min
      hi == IF min > max THEN min ELSE max
      exact == hi - lo + 1
      width == Wrap(exact)
  IN IF exact <= INT_MAX
       THEN {Returned(lo + CMod(rnd, width))}
       ELSE {Trapped} \cup
            (IF width = 0
               THEN {Returned(Wrap(lo + rnd))}
               ELSE {Returned(Wrap(lo + CMod(rnd, width)))})

RandomInt ==
  /\ r_pc = "call"
  /\ \E rnd \in 0..RAND_MAX : r_ret' \in random_int(r_min, r_max, rnd)
  /\ r_pc' = "done"
  /\ UNCHANGED <<r_min, r_max, logVars, trimVars>>

(* --------------------------- specifications ---------------------------- *)
LogIdle ==
  /\ log_file = NULL
  /\ current_log_level = LOG_INFO
  /\ open = {}
  /\ running = TRUE
  /\ call = NoCall
  /\ prev_call = NoCall
  /\ prev2_call = NoCall

TrimIdle ==
  /\ str = <<NUL>>
  /\ trim_in = <<>>
  /\ trim_n = 2

RandIdle ==
  /\ r_min = 0
  /\ r_max = 0
  /\ r_ret = Returned(0)
  /\ r_pc = "idle"

\* the logger: the globals as their initialisers leave them
Init == LogIdle /\ TrimIdle /\ RandIdle

Next == log_init \/ log_close \/ log_message

Spec == Init /\ [][Next]_vars

\* str_trim: every string of at most MaxLen characters, in a buffer that
\* holds it and its terminator
Strings == UNION {[1..n -> Chars] : n \in 0..MaxLen}

InitTrim ==
  /\ LogIdle /\ RandIdle
  /\ trim_in \in Strings
  /\ str = trim_in \o <<NUL>>
  /\ trim_n = 0

NextTrim == StrTrim

SpecTrim == InitTrim /\ [][NextTrim]_vars

\* random_int: every pair of ints
InitRand ==
  /\ LogIdle /\ TrimIdle
  /\ r_min \in Int_
  /\ r_max \in Int_
  /\ r_ret = Returned(0)
  /\ r_pc = "call"

NextRand == RandomInt

SpecRand == InitRand /\ [][NextRand]_vars

(* ------------------------------- claims -------------------------------- *)
\* the stream a log_message call writes to when it writes
Destination == IF log_file = NULL THEN STDOUT ELSE log_file

\* C1: log(L, ...) writes a line to the destination iff L >= T, T being the
\* threshold the last init set, in every logger state; the threshold is INFO
\* before any init (it starts at INFO and only init assigns it).
C1_WritesIffAtLeastThreshold ==
  /\ current_log_level = LOG_INFO
  /\ [][/\ call'.op = "log_init" => current_log_level' = call'.level
        /\ call'.op # "log_init" => current_log_level' = current_log_level
        /\ call'.op = "log_message" =>
             IF call'.level >= current_log_level
               THEN call'.lines = 1 /\ call'.wrote = Destination
               ELSE call'.lines = 0 /\ call'.wrote = NULL]_vars

C1_Witness ==
  /\ call.op = "log_message" /\ call.level = LOG_WARNING
  /\ call.lines = 1 /\ call.wrote \in FileHandles
  /\ prev_call.op = "log_init" /\ prev_call.level = LOG_WARNING

\* C2: at most one file opened by the logger is open at any time.
C2_AtMostOneOpenFile == Cardinality(open) <= 1

\* C3 as stated: a log call below the threshold writes nothing and leaves
\* destination and threshold exactly as they were, in every state.
C3_BelowThresholdChangesNothing ==
  [][(call'.op = "log_message" /\ call'.level < current_log_level) =>
       /\ call'.lines = 0 /\ call'.wrote = NULL
       /\ log_file' = log_file
       /\ current_log_level' = current_log_level]_vars

\* C3 amended: a log call below the threshold writes nothing, opens and
\* closes nothing, does not terminate the process and leaves the threshold as
\* it was; it leaves the destination as it was, except that an unset
\* destination becomes the standard output stream.
C3_BelowThresholdOnlySelectsStdout ==
  [][(call'.op = "log_message" /\ call'.level < current_log_level) =>
       /\ call'.lines = 0 /\ call'.wrote = NULL /\ ~call'.flushed
       /\ log_file' = Destination
       /\ current_log_level' = current_log_level
       /\ open' = open
       /\ running' = running]_vars

C3_Witness ==
  /\ call.op = "log_message" /\ call.level < current_log_level
  /\ prev_call.op = "log_close" /\ prev2_call.op = "log_init"
  /\ prev2_call.ret = "false"
  /\ log_file = STDOUT

\* C4: init(path, T) immediately followed by close() leaves the destination
\* unset (and the threshold T), and the next log call at a level >= T makes
\* the standard output stream the destination and writes its line there.
InitThenClose ==
  /\ call.op = "log_close"
  /\ prev_call.op = "log_init" /\ prev_call.filename # NoFilename

C4_InitCloseThenLogFallsBack ==
  /\ [](InitThenClose =>
          log_file = NULL /\ current_log_level = prev_call.level)
  /\ [][(/\ InitThenClose
         /\ call'.op = "log_message"
         /\ call'.level >= prev_call.level) =>
          /\ log_file' = STDOUT
          /\ call'.wrote = STDOUT /\ call'.lines = 1]_vars

C4_Witness ==
  /\ call.op = "log_message" /\ call.lines = 1 /\ call.wrote = STDOUT
  /\ log_file = STDOUT
  /\ prev_call.op = "log_close" /\ prev_call.closed # NULL
  /\ prev2_call.op = "log_init" /\ prev2_call.ret = "true"
  /\ prev2_call.filename # NoFilename

\* C5: init with a path that does not open returns false and leaves the
\* destination unset whatever it was before; init whose open succeeds, or
\* that is given no path, returns true and leaves the destination set.
C5_InitReportsOpenFailure ==
  [][call'.op = "log_init" =>
       IF call'.filename = NoFilename
         THEN call'.ret = "true" /\ log_file' = STDOUT /\ open' = open
       ELSE IF open' # open
         THEN call'.ret = "true" /\ log_file' \in open' \ open
       ELSE call'.ret = "false" /\ log_file' = NULL]_vars

C5_Witness ==
  /\ call.op = "log_init" /\ call.filename = "/nodir/app.log"
  /\ call.ret = "false" /\ log_file = NULL
  /\ prev_call.op = "log_init" /\ prev_call.filename = "app.log"
  /\ prev_call.ret = "true"

\* C6: a FATAL log call writes and flushes exactly one line and terminates
\* the process, after which nothing executes; no other call terminates it.
C6_FatalTerminates ==
  [][/\ running
     /\ (call'.op = "log_message" /\ call'.level = LOG_FATAL) =>
          call'.lines = 1 /\ call'.flushed /\ call'.wrote = Destination
     /\ running' = ~(call'.op = "log_message" /\ call'.level = LOG_FATAL)]_vars

C6_Witness ==
  /\ ~running
  /\ call.op = "log_message" /\ call.level = LOG_FATAL /\ call.lines = 1
  /\ call.wrote \in FileHandles
  /\ current_log_level = LOG_FATAL

\* C7: close() releases the destination and marks it unset exactly when it is
\* a file; when it is the standard output stream or unset, close() changes
\* nothing; the threshold is unchanged in every case.
C7_CloseReleasesOnlyFiles ==
  [][call'.op = "log_close" =>
       /\ current_log_level' = current_log_level
       /\ IF log_file \in FileHandles
            THEN /\ call'.closed = log_file
                 /\ open' = open \ {log_file}
                 /\ log_file' = NULL
            ELSE /\ call'.closed = NULL
                 /\ open' = open
                 /\ log_file' = log_file]_vars

C7_Witness ==
  /\ call.op = "log_close" /\ call.closed \in FileHandles /\ log_file = NULL
  /\ call.closed \notin open
  /\ prev_call.op = "log_message" /\ prev_call.wrote = call.closed
  /\ prev2_call.op = "log_init" /\ prev2_call.ret = "true"

\* C8: random_int(a, b) returns an r with min(a,b) <= r <= max(a,b), for
\* every pair of ints and every value of rand().
C8_RandomIntInRange ==
  r_pc = "done" =>
    /\ ~r_ret.trap
    /\ r_ret.val >= (IF r_min > r_max THEN r_max ELSE r_min)
    /\ r_ret.val <= (IF r_min > r_max THEN r_min ELSE r_max)

\* r is s without its maximal leading and trailing runs of whitespace
IsTrimOf(r, s) ==
  \E i \in 0..Len(s), j \in 0..Len(s) :
    /\ i + Len(r) + j = Len(s)
    /\ r = SubSeq(s, i + 1, i + Len(r))
    /\ \A k \in 1..i : s[k] \in Whitespace
    /\ \A k \in (Len(s) - j + 1)..Len(s) : s[k] \in Whitespace
    /\ r # <<>> => r[1] \notin Whitespace /\ r[Len(r)] \notin Whitespace

\* C9: trim(s) is s with its maximal leading run and maximal trailing run of
\* whitespace removed and the rest kept in order (so the empty string and a
\* string of whitespace give the empty string), and trimming again changes
\* nothing.
C9_TrimRemovesOuterWhitespace ==
  /\ [](trim_n >= 1 => IsTrimOf(CStr(str), trim_in))
  /\ [][trim_n = 1 => CStr(str') = CStr(str)]_vars

C9_Witness ==
  /\ trim_n = 2
  /\ Len(trim_in) = MaxLen
  /\ trim_in[1] = "TAB" /\ trim_in[Len(trim_in)] = "CR"
  /\ CStr(str) # <<>>

\* C10: a set destination is the standard output stream or a file that is
\* open now; a line is only written to such a stream, and close only closes
\* a file that is open.
C10_DestinationIsOpen ==
  /\ [](running => log_file \in {NULL, STDOUT} \cup open)
  /\ [][/\ call'.wrote # NULL => call'.wrote \in {STDOUT} \cup open
        /\ call'.closed # NULL => call'.closed \in open]_vars

C10_Witness ==
  /\ call.op = "log_message" /\ call.wrote \in FileHandles
  /\ prev_call.op = "log_init"
  /\ prev2_call.op = "log_close" /\ prev2_call.closed = call.wrote

====
